---------------------------- MODULE Spec2Model ----------------------------
(***************************************************************************)
(* Model of the ACE-to-Prolog translator (class ACEToPrologParser of       *)
(* src/src/ace_prolog_parser.py).  Python strings are TLA+ strings; a      *)
(* character is a string of length one.  An optional value (a str or None) *)
(* is a sequence of length one or zero.                                    *)
(***************************************************************************)
EXTENDS Integers, Sequences, FiniteSets, TLC

VARIABLES
    entity_map,        \* self.entity_map
    next_entity_id,    \* self.next_entity_id
    fact_patterns,     \* self.fact_patterns
    rule_patterns,     \* self.rule_patterns
    query_patterns,    \* self.query_patterns
    op,                \* the method a caller is in ("none": no call running)
    text,              \* the argument of that call
    result,            \* the value that call returns
    calls              \* the number of calls made on the instance so far

vars == <<entity_map, next_entity_id, fact_patterns, rule_patterns,
          query_patterns, op, text, result, calls>>

-----------------------------------------------------------------------------
(* Characters and the str methods the parser uses.                         *)

UpperSeq == "ABCDEFGHIJKLMNOPQRSTUVWXYZ"
LowerSeq == "abcdefghijklmnopqrstuvwxyz"
DigitSeq == "0123456789"

CharsOf(s) == { SubSeq(s, i, i) : i \in 1..Len(s) }

UpperCh == CharsOf(UpperSeq)
LowerCh == CharsOf(LowerSeq)
DigitCh == CharsOf(DigitSeq)
AlphaCh == UpperCh \cup LowerCh
\* [a-zA-Z0-9_]
WordCh == AlphaCh \cup DigitCh \cup {"_"}
\* [a-zA-Z0-9_-]
WordHyCh == WordCh \cup {"-"}
\* \s, and the characters str.strip() removes
SpaceCh == {" ", "\t", "\n"}

At(s, i) == SubSeq(s, i, i)

From(s, i) == SubSeq(s, i, Len(s))

LowerMap == [c \in UpperCh |->
               LET i == CHOOSE k \in 1..26 : At(UpperSeq, k) = c
               IN  At(LowerSeq, i)]

UpperMap == [c \in LowerCh |->
               LET i == CHOOSE k \in 1..26 : At(LowerSeq, k) = c
               IN  At(UpperSeq, i)]

RECURSIVE lower(_)
lower(s) ==
    IF s = "" THEN ""
    ELSE LET c == Head(s)
         IN  (IF c \in UpperCh THEN LowerMap[c] ELSE c) \o lower(Tail(s))

RECURSIVE upper(_)
upper(s) ==
    IF s = "" THEN ""
    ELSE LET c == Head(s)
         IN  (IF c \in LowerCh THEN UpperMap[c] ELSE c) \o upper(Tail(s))

\* s.strip()
strip(s) ==
    LET keep == { i \in 1..Len(s) : At(s, i) \notin SpaceCh }
    IN  IF keep = {} THEN ""
        ELSE LET a == CHOOSE i \in keep : \A j \in keep : i <= j
                 b == CHOOSE i \in keep : \A j \in keep : j <= i
             IN  SubSeq(s, a, b)

\* s.rstrip(ch): every trailing ch is removed
rstrip(s, ch) ==
    LET keep == { i \in 1..Len(s) : At(s, i) # ch }
    IN  IF keep = {} THEN ""
        ELSE SubSeq(s, 1, CHOOSE i \in keep : \A j \in keep : j <= i)

startswith(s, p) == Len(p) <= Len(s) /\ SubSeq(s, 1, Len(p)) = p

endswith(s, p) == Len(p) <= Len(s) /\ SubSeq(s, Len(s) - Len(p) + 1, Len(s)) = p

\* the literal p stands in s at position i
LitAt(s, i, p) == i >= 1 /\ i + Len(p) - 1 <= Len(s) /\ SubSeq(s, i, i + Len(p) - 1) = p

\* p in s
contains(s, p) == \E i \in 1..Len(s) : LitAt(s, i, p)

\* s.replace(a, b) for a single character a
RECURSIVE replace(_, _, _)
replace(s, a, b) ==
    IF s = "" THEN ""
    ELSE (IF Head(s) = a THEN b ELSE Head(s)) \o replace(Tail(s), a, b)

\* the last index j >= i - 1 with s[i..j] inside the class cls (greedy X*)
RunEnd(s, i, cls) ==
    LET stop == { j \in i..Len(s) : At(s, j) \notin cls }
    IN  IF stop = {} THEN Len(s)
        ELSE (CHOOSE j \in stop : \A k \in stop : j <= k) - 1

Max(S) == CHOOSE x \in S : \A y \in S : y <= x

Min(S) == CHOOSE x \in S : \A y \in S : x <= y

\* '.' of a regular expression matches every character but the newline
NoNewline(s, a, b) == \A k \in a..b : At(s, k) # "\n"

None == <<>>

Some(v) == <<v>>

-----------------------------------------------------------------------------
(* normalize_entity                                                        *)

\* A substitution that replaces blanks by '_' but turns every run of hyphens
\* into one blank.
sub_hyphen_to_blank(s) ==
    LET RECURSIVE go(_)
        go(t) ==
            IF t = "" THEN ""
            ELSE IF Head(t) = "-"
                 THEN " " \o go(From(t, RunEnd(t, 1, {"-"}) + 1))
                 ELSE IF Head(t) \in SpaceCh
                      THEN "_" \o go(From(t, RunEnd(t, 1, SpaceCh) + 1))
                      ELSE Head(t) \o go(Tail(t))
    IN  go(s)

\* re.sub(r'[\s\-]+', '_', s): every maximal run of blanks and hyphens
\* becomes one underscore
RECURSIVE sub_space_hyphen(_)
sub_space_hyphen(s) ==
    IF s = "" THEN ""
    ELSE IF Head(s) \in SpaceCh \cup {"-"}
         THEN "_" \o sub_space_hyphen(From(s, RunEnd(s, 1, SpaceCh \cup {"-"}) + 1))
         ELSE Head(s) \o sub_space_hyphen(Tail(s))

normalize_entity(entity) ==
    LET e1 == lower(strip(entity))
        e2 == sub_space_hyphen(e1)
    IN  IF e2 # "" /\ Head(e2) \in UpperCh
        THEN LowerMap[Head(e2)] \o Tail(e2)
        ELSE e2

-----------------------------------------------------------------------------
(* Pieces of the regular expressions.  re.match anchors at the start only, *)
(* so every pattern without '$' accepts any text after its last group.     *)

\* the end of the text a greedy '.+' or '.*' takes when it starts at j
DotEnd(s, j) ==
    LET nl == { k \in j..Len(s) : At(s, k) = "\n" }
    IN  IF nl = {} THEN Len(s) ELSE Min(nl) - 1

\* '<prefix>(.+)<lit><rest>' with the group starting at position a: the
\* position of <lit> for the greedy group, 0 when the pattern does not
\* match; Rest(j) tells whether <rest> matches at position j
LastLitFrom(s, a, lit, Rest(_)) ==
    LET C == { i \in (a + 1)..Len(s) : /\ LitAt(s, i, lit)
                                       /\ NoNewline(s, a, i - 1)
                                       /\ Rest(i + Len(lit)) }
    IN  IF C = {} THEN 0 ELSE Max(C)

\* '^(.+)<lit><rest>'
LastLit(s, lit, Rest(_)) == LastLitFrom(s, 1, lit, Rest)

\* [a-zA-Z] at j
AlphaAt(s, j) == j <= Len(s) /\ At(s, j) \in AlphaCh

\* ([a-zA-Z][a-zA-Z0-9_]*) at j
WordAt(s, j) == SubSeq(s, j, RunEnd(s, j + 1, WordCh))

\* ([A-Za-z][A-Za-z0-9_-]*) at j
WordHyAt(s, j) == SubSeq(s, j, RunEnd(s, j + 1, WordHyCh))

\* '.' at j
DotAt(s, j) == j <= Len(s) /\ At(s, j) # "\n"

\* (.+) at j, taken to the end of the line
RestAt(s, j) == SubSeq(s, j, DotEnd(s, j))

\* (employed|unemployed|self.employed|retired|married|single|divorced|widowed)
\* at j: the text of the first alternative that matches, "" when none does
StatusAt(s, j) ==
    IF LitAt(s, j, "employed") THEN "employed"
    ELSE IF LitAt(s, j, "unemployed") THEN "unemployed"
    ELSE IF LitAt(s, j, "self") /\ DotAt(s, j + 4) /\ LitAt(s, j + 5, "employed")
         THEN SubSeq(s, j, j + 12)
    ELSE IF LitAt(s, j, "retired") THEN "retired"
    ELSE IF LitAt(s, j, "married") THEN "married"
    ELSE IF LitAt(s, j, "single") THEN "single"
    ELSE IF LitAt(s, j, "divorced") THEN "divorced"
    ELSE IF LitAt(s, j, "widowed") THEN "widowed"
    ELSE ""

\* (\d+) at j: the last index of the digits, j - 1 when there is no digit
DigitsEnd(s, j) == RunEnd(s, j, DigitCh)

\* (\d+(?:\.\d+)?) at j: the last index of the number
NumberEnd(s, j) ==
    LET d == DigitsEnd(s, j)
    IN  IF d >= j /\ LitAt(s, d + 1, ".") /\ DigitsEnd(s, d + 2) >= d + 2
        THEN DigitsEnd(s, d + 2)
        ELSE d

\* (\d+(?:\.\d+)?) euros per (month|year) at j
EarnsAt(s, j) ==
    LET e == NumberEnd(s, j)
    IN  /\ e >= j
        /\ \/ LitAt(s, e + 1, " euros per month")
           \/ LitAt(s, e + 1, " euros per year")
        \* with the fraction dropped the literal ' euros' would have to
        \* start at the '.', so no shorter number matches

\* (\d{4}-\d{2}-\d{2}) at j
DateAt(s, j) ==
    /\ j + 9 <= Len(s)
    /\ \A k \in {0, 1, 2, 3, 5, 6, 8, 9} : At(s, j + k) \in DigitCh
    /\ At(s, j + 4) = "-"
    /\ At(s, j + 7) = "-"

\* (\d+) (child|children) at j
ChildCountAt(s, j) ==
    LET d == DigitsEnd(s, j)
    IN  d >= j /\ LitAt(s, d + 1, " child")

\* (German|EU|non.EU) at j: the matched text, "" when none matches
CitizenshipAt(s, j) ==
    IF LitAt(s, j, "German") THEN "German"
    ELSE IF LitAt(s, j, "EU") THEN "EU"
    ELSE IF LitAt(s, j, "non") /\ DotAt(s, j + 3) /\ LitAt(s, j + 4, "EU")
         THEN SubSeq(s, j, j + 5)
    ELSE ""

\* (German|EU|non.EU) citizenship at j
CitizenshipPhraseAt(s, j) ==
    /\ CitizenshipAt(s, j) # ""
    /\ LitAt(s, j + Len(CitizenshipAt(s, j)), " citizenship")

\* '(.+) (.+)' at j: the position of the blank that ends the greedy first
\* group, 0 when there is none
LastBlank(s, j) ==
    LET C == { k \in (j + 1)..(DotEnd(s, j) - 1) : At(s, k) = " " }
    IN  IF C = {} THEN 0 ELSE Max(C)

-----------------------------------------------------------------------------
(* ace_to_prolog_fact                                                      *)

\* A last branch that takes a text of no template for the name of a
\* proposition, instead of failing.
no_template_as_atom(s) == Some(normalize_entity(s))

\* the last statement, reached when no template matched: return None
no_template(s) == None

ace_to_prolog_fact(ace_fact) ==
    LET s == rstrip(strip(ace_fact), ".")
        isa == LastLit(s, " is a ", LAMBDA j : AlphaAt(s, j))
        ist == LastLit(s, " is ", LAMBDA j : StatusAt(s, j) # "")
        isp == LastLit(s, " is ", LAMBDA j : AlphaAt(s, j))
        lik == LastLit(s, " likes ", LAMBDA j : DotAt(s, j))
        ear == LastLit(s, " earns ", LAMBDA j : EarnsAt(s, j))
        bor == LastLit(s, " was born on ", LAMBDA j : DateAt(s, j))
        liv == LastLit(s, " lives in ", LAMBDA j : AlphaAt(s, j))
        chi == LastLit(s, " has ", LAMBDA j : ChildCountAt(s, j))
        cit == LastLit(s, " has ", LAMBDA j : CitizenshipPhraseAt(s, j))
        has == LastLit(s, " has ", LAMBDA j : LastBlank(s, j) # 0)
        G1(i) == normalize_entity(SubSeq(s, 1, i - 1))
    IN
    IF isa # 0 THEN
        Some(normalize_entity(WordAt(s, isa + 6)) \o "(" \o G1(isa) \o ")")
    ELSE IF ist # 0 THEN
        LET status == replace(StatusAt(s, ist + 4), "-", "_")
        IN  IF status \in {"employed", "unemployed", "self_employed", "retired"}
            THEN Some("employment_status(" \o G1(ist) \o ", " \o status \o ")")
            ELSE IF status \in {"married", "single", "divorced", "widowed"}
            THEN Some("marital_status(" \o G1(ist) \o ", " \o status \o ")")
            ELSE None
    ELSE IF isp # 0 THEN
        Some(normalize_entity(WordAt(s, isp + 4)) \o "(" \o G1(isp) \o ")")
    ELSE IF lik # 0 THEN
        Some("likes(" \o G1(lik) \o ", "
             \o normalize_entity(RestAt(s, lik + 7)) \o ")")
    ELSE IF ear # 0 THEN
        LET e == NumberEnd(s, ear + 7)
            period == IF LitAt(s, e + 12, "month") THEN "month" ELSE "year"
        IN  Some("income(" \o G1(ear) \o ", " \o SubSeq(s, ear + 7, e)
                 \o ", " \o period \o ")")
    ELSE IF bor # 0 THEN
        LET j == bor + 13
        IN  Some("birth_date(" \o G1(bor) \o ", date("
                 \o SubSeq(s, j, j + 3) \o ", " \o SubSeq(s, j + 5, j + 6)
                 \o ", " \o SubSeq(s, j + 8, j + 9) \o "))")
    ELSE IF liv # 0 THEN
        Some("residence(" \o G1(liv) \o ", "
             \o normalize_entity(WordHyAt(s, liv + 10)) \o ")")
    ELSE IF chi # 0 THEN
        Some("children_count(" \o G1(chi) \o ", "
             \o SubSeq(s, chi + 5, DigitsEnd(s, chi + 5)) \o ")")
    ELSE IF cit # 0 THEN
        Some("citizenship(" \o G1(cit) \o ", "
             \o lower(replace(CitizenshipAt(s, cit + 5), "-", "_")) \o ")")
    ELSE IF has # 0 THEN
        LET b == LastBlank(s, has + 5)
        IN  Some("has_property(" \o G1(has) \o ", "
                 \o normalize_entity(SubSeq(s, has + 5, b - 1)) \o ", "
                 \o normalize_entity(RestAt(s, b + 1)) \o ")")
    ELSE no_template(s)

-----------------------------------------------------------------------------
(* ace_to_prolog_rule and the condition parsers                            *)

\* re.split(r'\s+<word>\s+', s, flags=re.IGNORECASE): the start of the
\* leftmost separator at or after position from, 0 when there is none
FirstSep(s, ls, word, from) ==
    LET C == { k \in from..Len(s) :
                 /\ At(s, k) \in SpaceCh
                 /\ LET r == RunEnd(s, k, SpaceCh)
                    IN  /\ LitAt(ls, r + 1, word)
                        /\ r + 1 + Len(word) <= Len(s)
                        /\ At(s, r + 1 + Len(word)) \in SpaceCh }
    IN  IF C = {} THEN 0 ELSE Min(C)

\* the last character of the separator that starts at k
SepEnd(s, word, k) == RunEnd(s, RunEnd(s, k, SpaceCh) + 1 + Len(word), SpaceCh)

RECURSIVE SplitFrom(_, _, _, _)
SplitFrom(s, ls, word, from) ==
    LET k == FirstSep(s, ls, word, from)
    IN  IF k = 0 THEN << From(s, from) >>
        ELSE << SubSeq(s, from, k - 1) >>
             \o SplitFrom(s, ls, word, SepEnd(s, word, k) + 1)

re_split(s, word) == SplitFrom(s, lower(s), word, 1)

\* subject.upper() == var_name or subject.lower() == var_name.lower()
IsVar(subject, var_name) ==
    upper(subject) = var_name \/ lower(subject) = lower(var_name)

\* (more than|fewer than|at least|exactly) at j: the matched text
ComparisonAt(s, j) ==
    IF LitAt(s, j, "more than") THEN "more than"
    ELSE IF LitAt(s, j, "fewer than") THEN "fewer than"
    ELSE IF LitAt(s, j, "at least") THEN "at least"
    ELSE IF LitAt(s, j, "exactly") THEN "exactly"
    ELSE ""

\* (more than|fewer than|at least|exactly) (\d+) (child|children) at j
ComparisonPhraseAt(s, j) ==
    LET c == ComparisonAt(s, j)
    IN  /\ c # ""
        /\ LitAt(s, j + Len(c), " ")
        /\ ChildCountAt(s, j + Len(c) + 1)

\* '^(.+) (is|has) (.+)': the position of the blank before the verb for the
\* greedy first group, 0 when the pattern does not match
LastIsHas(s) ==
    LET C == { i \in 2..Len(s) : /\ \/ LitAt(s, i, " is ") /\ DotAt(s, i + 4)
                                    \/ LitAt(s, i, " has ") /\ DotAt(s, i + 5)
                                 /\ NoNewline(s, 1, i - 1) }
    IN  IF C = {} THEN 0 ELSE Max(C)

_parse_condition(condition, var_name) ==
    LET lik == LastLit(condition, " likes ", LAMBDA j : DotAt(condition, j))
        isp == LastLit(condition, " is ", LAMBDA j : DotAt(condition, j))
        Subject(i) == strip(SubSeq(condition, 1, i - 1))
        Term(i) == IF upper(Subject(i)) = var_name THEN var_name
                   ELSE normalize_entity(Subject(i))
    IN
    IF lik # 0 THEN
        Some("likes(" \o Term(lik) \o ", "
             \o normalize_entity(RestAt(condition, lik + 7)) \o ")")
    ELSE IF isp # 0 THEN
        Some(normalize_entity(RestAt(condition, isp + 4))
             \o "(" \o Term(isp) \o ")")
    ELSE None

\* what a branch returned, or the value of the statement the code falls
\* through to when no branch returned
returned_or(returned, fall_through) ==
    IF returned # None THEN returned ELSE fall_through

_parse_single_condition(condition, var_name) ==
    LET c == condition
        cmp == LastLit(c, " has ", LAMBDA j : ComparisonPhraseAt(c, j))
        cit == LastLit(c, " has ", LAMBDA j : CitizenshipPhraseAt(c, j))
        liv == LastLit(c, " lives in ", LAMBDA j : DotAt(c, j))
        ish == LastIsHas(c)
        Subject(i) == strip(SubSeq(c, 1, i - 1))
    IN
    returned_or(
        IF cmp # 0 THEN
            LET comparison == ComparisonAt(c, cmp + 5)
                d == cmp + 5 + Len(comparison) + 1
                count == SubSeq(c, d, DigitsEnd(c, d))
                sign == IF comparison = "more than" THEN ">"
                        ELSE IF comparison = "fewer than" THEN "<"
                        ELSE IF comparison = "at least" THEN ">="
                        ELSE "=:="
            IN  IF IsVar(Subject(cmp), var_name)
                THEN Some("children_count(" \o var_name \o ", Count), Count "
                          \o sign \o " " \o count)
                ELSE None
        ELSE IF cit # 0 THEN
            IF IsVar(Subject(cit), var_name)
            THEN Some("citizenship(" \o var_name \o ", "
                      \o lower(replace(CitizenshipAt(c, cit + 5), "-", "_")) \o ")")
            ELSE None
        ELSE IF liv # 0 THEN
            IF IsVar(Subject(liv), var_name)
            THEN Some("residence(" \o var_name \o ", "
                      \o normalize_entity(RestAt(c, liv + 10)) \o ")")
            ELSE None
        ELSE IF ish # 0 THEN
            LET verb == IF LitAt(c, ish, " is ") THEN "is" ELSE "has"
                object_part == strip(RestAt(c, ish + Len(verb) + 2))
            IN  IF IsVar(Subject(ish), var_name) /\ verb = "is"
                THEN IF object_part \in {"employed", "unemployed", "self-employed", "retired"}
                     THEN Some("employment_status(" \o var_name \o ", "
                               \o replace(object_part, "-", "_") \o ")")
                     ELSE IF object_part \in {"married", "single", "divorced", "widowed"}
                     THEN Some("marital_status(" \o var_name \o ", " \o object_part \o ")")
                     ELSE Some(normalize_entity(object_part) \o "(" \o var_name \o ")")
                ELSE None
        ELSE None,
        \* Fallback to original condition parsing
        _parse_condition(condition, var_name))

\* the goals of the parts that translate (a part that does not is skipped)
RECURSIVE ParsedParts(_, _)
ParsedParts(parts, var_name) ==
    IF parts = << >> THEN << >>
    ELSE _parse_single_condition(strip(Head(parts)), var_name)
         \o ParsedParts(Tail(parts), var_name)

\* sep.join(goals)
RECURSIVE join(_, _)
join(sep, goals) ==
    IF Len(goals) = 1 THEN goals[1]
    ELSE goals[1] \o sep \o join(sep, Tail(goals))

\* if parsed_parts: return sep.join(parsed_parts)
join_if_any(sep, parsed_parts) ==
    IF parsed_parts # << >> THEN Some(join(sep, parsed_parts)) ELSE None

_parse_complex_conditions(condition, var_name) ==
    IF contains(lower(condition), " and ") THEN
        join_if_any(", ", ParsedParts(re_split(condition, "and"), var_name))
    ELSE IF contains(lower(condition), " or ") THEN
        join_if_any("; ", ParsedParts(re_split(condition, "or"), var_name))
    ELSE _parse_single_condition(condition, var_name)

\* '^(.+) is eligible for (.+) if (.+)' with re.IGNORECASE, on the lowered
\* text: the position of ' if ' for the greedy second group that starts at j
LastIf(ls, j) ==
    LET C == { k \in (j + 1)..DotEnd(ls, j) : LitAt(ls, k, " if ") /\ DotAt(ls, k + 4) }
    IN  IF C = {} THEN 0 ELSE Max(C)

\* the variable cut to its first letter, as a single-letter variable pattern
\* '^([A-Za-z]) is' would take it
conclusion_var_name_one_letter(subject) == upper(At(subject, 1))

\* var_name = match.group(1).upper(): the subject of the conclusion as written
conclusion_var_name(subject) == upper(subject)

\* A rule_clause that writes the clause also when the condition did not
\* translate, with an empty body.
rule_clause_unguarded(conclusion, condition_prolog) ==
    Some(conclusion \o " :- "
         \o (IF condition_prolog # None THEN condition_prolog[1] ELSE ""))

\* if condition_prolog: return f"{conclusion} :- {condition_prolog}"
rule_clause(conclusion, condition_prolog) ==
    IF condition_prolog # None
    THEN Some(conclusion \o " :- " \o condition_prolog[1])
    ELSE None

ace_to_prolog_rule(ace_rule) ==
    LET r == rstrip(strip(ace_rule), ".")
        ls == lower(r)
        eli == LastLit(ls, " is eligible for ", LAMBDA j : DotAt(ls, j) /\ LastIf(ls, j) # 0)
    IN
    IF eli # 0 THEN
        LET k == LastIf(ls, eli + 17)
            entity == strip(SubSeq(r, 1, eli - 1))
            benefit == strip(SubSeq(r, eli + 17, k - 1))
            conditions == strip(RestAt(r, k + 4))
            var_name == IF upper(entity) \in {"X", "Y", "Z"} THEN upper(entity) ELSE "X"
            conclusion == "eligible(" \o var_name \o ", " \o normalize_entity(benefit) \o ")"
        IN  rule_clause(conclusion, _parse_complex_conditions(conditions, var_name))
    ELSE IF contains(ls, " if ") THEN
        LET parts == re_split(r, "if")
        IN  IF Len(parts) = 2 THEN
                LET conclusion == strip(parts[1])
                    condition == strip(parts[2])
                    isp == LastLit(conclusion, " is ", LAMBDA j : AlphaAt(conclusion, j))
                IN  IF isp # 0 THEN
                        LET var_name == conclusion_var_name(SubSeq(conclusion, 1, isp - 1))
                            property_name == normalize_entity(WordAt(conclusion, isp + 4))
                            conclusion_prolog == property_name \o "(" \o var_name \o ")"
                        IN  rule_clause(conclusion_prolog,
                                        _parse_complex_conditions(condition, var_name))
                    ELSE None
            ELSE None
    ELSE None

-----------------------------------------------------------------------------
(* parse_query_type and ace_to_prolog_query                                *)

\* '(.+) (receive|earn)' at j: the position of the blank before the verb
\* for the greedy group, 0 when there is none
LastAction(s, j) ==
    LET C == { k \in (j + 1)..DotEnd(s, j) : LitAt(s, k, " receive") \/ LitAt(s, k, " earn") }
    IN  IF C = {} THEN 0 ELSE Max(C)

\* '^what does ([a-zA-Z][a-zA-Z0-9_]*) like'
WhatDoesLike(q) ==
    /\ startswith(q, "what does ")
    /\ AlphaAt(q, 11)
    /\ LitAt(q, 11 + Len(WordAt(q, 11)), " like")

\* The dispatch without the eligibility test: every 'is ...' question is an
\* IS_X_Y question.
IsEligible_never(q) == 0

\* '^is (.+) eligible for (.+)': the position of ' eligible for '
IsEligible(q) ==
    IF startswith(q, "is ")
    THEN LastLitFrom(q, 4, " eligible for ", LAMBDA j : DotAt(q, j))
    ELSE 0

\* '^what benefits does (.+) qualify for': the position of ' qualify for'
WhatBenefits(q) ==
    IF startswith(q, "what benefits does ")
    THEN LastLitFrom(q, 20, " qualify for", LAMBDA j : TRUE)
    ELSE 0

\* '^which (.+) are eligible for (.+)': the position of ' are eligible for '
WhichEligible(q) ==
    IF startswith(q, "which ")
    THEN LastLitFrom(q, 7, " are eligible for ", LAMBDA j : DotAt(q, j))
    ELSE 0

\* '^how much (.+) does (.+) (receive|earn)': the position of ' does '
HowMuch(q) ==
    IF startswith(q, "how much ")
    THEN LastLitFrom(q, 10, " does ", LAMBDA j : LastAction(q, j) # 0)
    ELSE 0

\* A parse_query_type that tests the general pattern of a lead word before
\* the specific one.
parse_query_type_general_first(ace_query) ==
    LET query_lower == lower(ace_query)
    IN  IF startswith(query_lower, "is ") THEN Some("IS_X_Y")
        ELSE IF startswith(query_lower, "who is ") THEN Some("WHO_IS_X")
        ELSE IF startswith(query_lower, "what ") THEN Some("WHAT_DOES_X_LIKE")
        ELSE IF WhichEligible(query_lower) # 0 THEN Some("WHICH_ELIGIBLE")
        ELSE IF HowMuch(query_lower) # 0 THEN Some("HOW_MUCH")
        ELSE None

parse_query_type(ace_query) ==
    LET query_lower == lower(ace_query)
    IN  IF startswith(query_lower, "is ") THEN
            IF IsEligible(query_lower) # 0 THEN Some("IS_ELIGIBLE_FOR")
            ELSE Some("IS_X_Y")
        ELSE IF startswith(query_lower, "who is ") THEN Some("WHO_IS_X")
        ELSE IF WhatDoesLike(query_lower) THEN Some("WHAT_DOES_X_LIKE")
        ELSE IF WhatBenefits(query_lower) # 0 THEN Some("WHAT_BENEFITS")
        ELSE IF WhichEligible(query_lower) # 0 THEN Some("WHICH_ELIGIBLE")
        ELSE IF HowMuch(query_lower) # 0 THEN Some("HOW_MUCH")
        ELSE None

ace_to_prolog_query(ace_query) ==
    LET q == rstrip(strip(ace_query), "?")
        ql == lower(q)
        query_type == parse_query_type(q)
    IN
    IF query_type = Some("IS_X_Y") THEN
        LET query_content == strip(From(q, 4))
            e == Len(WordAt(query_content, 1))
        IN  IF /\ AlphaAt(query_content, 1)
               /\ LitAt(query_content, e + 1, " ")
               /\ AlphaAt(query_content, e + 2)
            THEN Some(normalize_entity(WordAt(query_content, e + 2)) \o "("
                      \o normalize_entity(WordAt(query_content, 1)) \o ")")
            ELSE None
    ELSE IF query_type = Some("WHO_IS_X") THEN
        Some(normalize_entity(lower(strip(From(q, 8)))) \o "(X)")
    ELSE IF query_type = Some("WHAT_DOES_X_LIKE") THEN
        Some("likes(" \o normalize_entity(WordAt(ql, 11)) \o ", X)")
    ELSE IF query_type = Some("IS_ELIGIBLE_FOR") THEN
        LET i == IsEligible(ql)
        IN  Some("eligible(" \o normalize_entity(SubSeq(ql, 4, i - 1)) \o ", "
                 \o normalize_entity(RestAt(ql, i + 14)) \o ")")
    ELSE IF query_type = Some("WHAT_BENEFITS") THEN
        LET i == WhatBenefits(ql)
        IN  Some("eligible(" \o normalize_entity(SubSeq(ql, 20, i - 1)) \o ", X)")
    ELSE IF query_type = Some("WHICH_ELIGIBLE") THEN
        LET i == WhichEligible(ql)
        IN  Some("eligible(X, " \o normalize_entity(RestAt(ql, i + 18)) \o ")")
    ELSE IF query_type = Some("HOW_MUCH") THEN
        LET i == HowMuch(ql)
            k == LastAction(ql, i + 6)
            benefit_type == normalize_entity(SubSeq(ql, 10, i - 1))
            entity == normalize_entity(SubSeq(ql, i + 6, k - 1))
            action == IF LitAt(ql, k, " receive") THEN "receive" ELSE "earn"
        IN  IF action = "earn"
            THEN Some("income(" \o entity \o ", X, _)")
            ELSE Some("benefit_amount(" \o entity \o ", " \o benefit_type \o ", X)")
    ELSE None

-----------------------------------------------------------------------------
(* The pattern tables of __init__ and re.match on their patterns           *)

InitFactPatterns ==
    << "^[A-Z][a-zA-Z0-9_-]+ (is|are|has|have) .+\\.$",
       "^[A-Z][a-zA-Z0-9_-]+ .+ [a-zA-Z0-9_-]+\\.$",
       "^[A-Z][a-zA-Z0-9_-]+ earns \\d+(\\.\\d+)? euros per (month|year)\\.$",
       "^[A-Z][a-zA-Z0-9_-]+ was born on \\d{4}-\\d{2}-\\d{2}\\.$",
       "^[A-Z][a-zA-Z0-9_-]+ lives in [A-Za-z0-9_-]+\\.$",
       "^[A-Z][a-zA-Z0-9_-]+ has \\d+ (child|children)\\.$",
       "^[A-Z][a-zA-Z0-9_-]+ is (employed|unemployed|self-employed|retired)\\.$",
       "^[A-Z][a-zA-Z0-9_-]+ is (married|single|divorced|widowed)\\.$",
       "^[A-Z][a-zA-Z0-9_-]+ has (German|EU|non-EU) citizenship\\.$" >>

InitRulePatterns ==
    << "^.+ if .+\\.$",
       "^If .+ then .+\\.$",
       "^.+ is eligible for .+ if .+\\.$",
       "^.+ qualifies for .+ when .+\\.$",
       "^.+ receives .+ if .+ and .+\\.$" >>

InitQueryPatterns ==
    << "^.+\\?$",
       "^(Is|Are|Does|Do|Who|What|When|Where|Why|How) .+\\?$",
       "^Is .+ eligible for .+\\?$",
       "^What benefits does .+ qualify for\\?$",
       "^How much .+ does .+ receive\\?$",
       "^Which .+ are eligible for .+\\?$" >>

\* '^L1.+L2.+ ... Ln$' at pos: the literals stand in this order, the first
\* at pos, the last at the end of the text, at least one character between
\* two of them
RECURSIVE Gaps(_, _, _)
Gaps(s, pos, lits) ==
    /\ LitAt(s, pos, lits[1])
    /\ IF Len(lits) = 1 THEN pos + Len(lits[1]) - 1 = Len(s)
       ELSE \E p \in (pos + Len(lits[1]) + 1)..Len(s) : Gaps(s, p, Tail(lits))

\* '^[A-Z][a-zA-Z0-9_-]+' before a blank: the last index of the subject,
\* 0 when the text does not start with one
SubjectEnd(t) ==
    IF Len(t) >= 2 /\ At(t, 1) \in UpperCh /\ At(t, 2) \in WordHyCh
    THEN RunEnd(t, 2, WordHyCh)
    ELSE 0

\* re.match(pattern, t) for the patterns of fact_patterns (case-sensitive)
MatchFact(pattern, t) ==
    LET e == SubjectEnd(t)
        tail == From(t, e + 1)
    IN  /\ e > 0
        /\ NoNewline(t, 1, Len(t))
        /\ CASE pattern = InitFactPatterns[1] ->
                    \E v \in {"is", "are", "has", "have"} :
                        Gaps(t, e + 1, << " " \o v \o " ", "." >>)
             [] pattern = InitFactPatterns[2] ->
                    /\ LitAt(t, e + 1, " ")
                    /\ endswith(t, ".")
                    /\ \E b \in (e + 3)..(Len(t) - 2) :
                          /\ At(t, b) = " "
                          /\ \A k \in (b + 1)..(Len(t) - 1) : At(t, k) \in WordHyCh
             [] pattern = InitFactPatterns[3] ->
                    /\ LitAt(t, e + 1, " earns ")
                    /\ NumberEnd(t, e + 8) >= e + 8
                    /\ From(t, NumberEnd(t, e + 8) + 1)
                          \in {" euros per month.", " euros per year."}
             [] pattern = InitFactPatterns[4] ->
                    /\ LitAt(t, e + 1, " was born on ")
                    /\ DateAt(t, e + 14)
                    /\ From(t, e + 24) = "."
             [] pattern = InitFactPatterns[5] ->
                    /\ LitAt(t, e + 1, " lives in ")
                    /\ RunEnd(t, e + 11, WordHyCh) >= e + 11
                    /\ From(t, RunEnd(t, e + 11, WordHyCh) + 1) = "."
             [] pattern = InitFactPatterns[6] ->
                    /\ LitAt(t, e + 1, " has ")
                    /\ DigitsEnd(t, e + 6) >= e + 6
                    /\ From(t, DigitsEnd(t, e + 6) + 1) \in {" child.", " children."}
             [] pattern = InitFactPatterns[7] ->
                    tail \in {" is employed.", " is unemployed.",
                              " is self-employed.", " is retired."}
             [] pattern = InitFactPatterns[8] ->
                    tail \in {" is married.", " is single.",
                              " is divorced.", " is widowed."}
             [] pattern = InitFactPatterns[9] ->
                    tail \in {" has German citizenship.", " has EU citizenship.",
                              " has non-EU citizenship."}
             [] OTHER -> FALSE

\* re.match(pattern, t, re.IGNORECASE) for the patterns of rule_patterns
MatchRule(pattern, t) ==
    LET lt == lower(t)
    IN  /\ NoNewline(t, 1, Len(t))
        /\ CASE pattern = InitRulePatterns[1] -> Gaps(lt, 1, << "", " if ", "." >>)
             [] pattern = InitRulePatterns[2] -> Gaps(lt, 1, << "if ", " then ", "." >>)
             [] pattern = InitRulePatterns[3] ->
                    Gaps(lt, 1, << "", " is eligible for ", " if ", "." >>)
             [] pattern = InitRulePatterns[4] ->
                    Gaps(lt, 1, << "", " qualifies for ", " when ", "." >>)
             [] pattern = InitRulePatterns[5] ->
                    Gaps(lt, 1, << "", " receives ", " if ", " and ", "." >>)
             [] OTHER -> FALSE

\* re.match(pattern, t, re.IGNORECASE) for the patterns of query_patterns
MatchQuery(pattern, t) ==
    LET lt == lower(t)
    IN  /\ NoNewline(t, 1, Len(t))
        /\ CASE pattern = InitQueryPatterns[1] -> Gaps(lt, 1, << "", "?" >>)
             [] pattern = InitQueryPatterns[2] ->
                    \E w \in {"is", "are", "does", "do", "who", "what", "when",
                              "where", "why", "how"} :
                        Gaps(lt, 1, << w \o " ", "?" >>)
             [] pattern = InitQueryPatterns[3] ->
                    Gaps(lt, 1, << "is ", " eligible for ", "?" >>)
             [] pattern = InitQueryPatterns[4] ->
                    Gaps(lt, 1, << "what benefits does ", " qualify for?" >>)
             [] pattern = InitQueryPatterns[5] ->
                    Gaps(lt, 1, << "how much ", " does ", " receive?" >>)
             [] pattern = InitQueryPatterns[6] ->
                    Gaps(lt, 1, << "which ", " are eligible for ", "?" >>)
             [] OTHER -> FALSE

-----------------------------------------------------------------------------
(* parse_statement and parse_text                                          *)

ACEStatement(content, statement_type) ==
    [content |-> content, statement_type |-> statement_type]

\* A parse_statement that keeps the text as passed, without trimming it.
statement_text_raw(txt) == txt

\* text = text.strip()
statement_text(txt) == strip(txt)

\* self: the pattern tables of the instance
parse_statement(self, txt) ==
    LET t == statement_text(txt)
    IN  IF \E i \in 1..Len(self.query_patterns) : MatchQuery(self.query_patterns[i], t)
        THEN ACEStatement(t, "query")
        ELSE IF \E i \in 1..Len(self.rule_patterns) : MatchRule(self.rule_patterns[i], t)
        THEN ACEStatement(t, "rule")
        ELSE IF \/ \E i \in 1..Len(self.fact_patterns) : MatchFact(self.fact_patterns[i], t)
                \/ endswith(t, ".")
        THEN ACEStatement(t, "fact")
        ELSE ACEStatement(IF ~endswith(t, ".") THEN t \o "." ELSE t, "fact")

\* s.split('\n')
RECURSIVE split_lines(_)
split_lines(s) ==
    LET nl == { k \in 1..Len(s) : At(s, k) = "\n" }
    IN  IF nl = {} THEN << s >>
        ELSE << SubSeq(s, 1, Min(nl) - 1) >> \o split_lines(From(s, Min(nl) + 1))

\* A parse_text that tests for '#' on the line as written, so that an
\* indented comment is parsed as a statement.
RECURSIVE parse_lines_comment_at_column_0(_, _)
parse_lines_comment_at_column_0(self, lines) ==
    IF lines = << >> THEN << >>
    ELSE LET line == strip(Head(lines))
         IN  (IF line # "" /\ ~startswith(Head(lines), "#")
              THEN << parse_statement(self, line) >>
              ELSE << >>)
             \o parse_lines_comment_at_column_0(self, Tail(lines))

RECURSIVE parse_lines(_, _)
parse_lines(self, lines) ==
    IF lines = << >> THEN << >>
    ELSE LET line == strip(Head(lines))
         IN  (IF line # "" /\ ~startswith(line, "#")
              THEN << parse_statement(self, line) >>
              ELSE << >>)
             \o parse_lines(self, Tail(lines))

parse_text(self, txt) == parse_lines(self, split_lines(txt))

-----------------------------------------------------------------------------
(* The parser the enhanced one replaces (ace_prolog_parser.py at the top   *)
(* of the repository).  Its patterns end in '$' and are matched with       *)
(* re.IGNORECASE.                                                          *)

\* '[a-zA-Z][a-zA-Z0-9_]*' over the whole of w
IsIdent(w) == w # "" /\ Head(w) \in AlphaCh /\ \A k \in 1..Len(w) : At(w, k) \in WordCh

\* '[a-zA-Z][a-zA-Z0-9_-]*' over the whole of w
IsIdentHy(w) == w # "" /\ Head(w) \in AlphaCh /\ \A k \in 1..Len(w) : At(w, k) \in WordHyCh

\* '[a-zA-Z0-9_-]+' over the whole of w
IsValueWord(w) == w # "" /\ \A k \in 1..Len(w) : At(w, k) \in WordHyCh

\* '$' matches at the end and before a newline that ends the text
BeforeEnd(s) ==
    IF s # "" /\ At(s, Len(s)) = "\n" THEN SubSeq(s, 1, Len(s) - 1) ELSE s

\* the greedy first group '([A-Za-z][a-zA-Z0-9_]*)' at the start of s
FirstIdent(s) == SubSeq(s, 1, RunEnd(s, 1, WordCh))

\* '^(first) <verb> (second)$': the two groups, << >> when s does not match
\* (verb is written with its blanks, in lower case)
legacy_match(s, verb, one_letter) ==
    LET t == BeforeEnd(s)
        a == FirstIdent(t)
        b == From(t, Len(a) + Len(verb) + 1)
    IN  IF /\ IsIdent(a)
           /\ one_letter => Len(a) = 1
           /\ LitAt(lower(t), Len(a) + 1, verb)
           /\ IsIdent(b)
        THEN << a, b >>
        ELSE << >>

\* fact_patterns['has_property']: the three groups, << >> without a match
legacy_match_has(s) ==
    LET t == BeforeEnd(s)
        a == FirstIdent(t)
        r == From(t, Len(a) + 6)
        b == SubSeq(r, 1, RunEnd(r, 1, WordHyCh))
        c == From(r, Len(b) + 2)
    IN  IF /\ IsIdent(a)
           /\ LitAt(lower(t), Len(a) + 1, " has ")
           /\ IsIdentHy(b)
           /\ LitAt(r, Len(b) + 1, " ")
           /\ IsValueWord(c)
        THEN << a, b, c >>
        ELSE << >>

\* the clause of the first pattern that matched
legacy_fact_of(is_a, is, likes, has) ==
    IF is_a # << >> THEN Some(lower(is_a[2]) \o "(" \o lower(is_a[1]) \o ")")
    ELSE IF is # << >> THEN Some(lower(is[2]) \o "(" \o lower(is[1]) \o ")")
    ELSE IF likes # << >>
    THEN Some("likes(" \o lower(likes[1]) \o ", " \o lower(likes[2]) \o ")")
    ELSE IF has # << >>
    THEN Some("has_property(" \o lower(has[1]) \o ", "
              \o replace(lower(has[2]), "-", "_") \o ", " \o lower(has[3]) \o ")")
    ELSE None

legacy_ace_to_prolog_fact(ace_fact) ==
    LET s == rstrip(strip(ace_fact), ".")
    IN  legacy_fact_of(legacy_match(s, " is a ", FALSE), legacy_match(s, " is ", FALSE),
                       legacy_match(s, " likes ", FALSE), legacy_match_has(s))

\* the predicate of the first expression pattern that matched
legacy_expression_of(var_is, var_likes, entity_is, entity_likes) ==
    IF var_is # << >> THEN Some(lower(var_is[2]) \o "(" \o upper(var_is[1]) \o ")")
    ELSE IF var_likes # << >>
    THEN Some("likes(" \o upper(var_likes[1]) \o ", " \o lower(var_likes[2]) \o ")")
    ELSE IF entity_is # << >>
    THEN Some(lower(entity_is[2]) \o "(" \o lower(entity_is[1]) \o ")")
    ELSE IF entity_likes # << >>
    THEN Some("likes(" \o lower(entity_likes[1]) \o ", " \o lower(entity_likes[2]) \o ")")
    ELSE None

_convert_ace_expression_to_prolog(expression) ==
    LET e == strip(expression)
    IN  legacy_expression_of(legacy_match(e, " is ", TRUE), legacy_match(e, " likes ", TRUE),
                             legacy_match(e, " is ", FALSE), legacy_match(e, " likes ", FALSE))

\* if conclusion_prolog and condition_prolog: return '<conclusion> :- <condition>'
legacy_rule_clause(conclusion_prolog, condition_prolog) ==
    IF conclusion_prolog # None /\ condition_prolog # None
    THEN Some(conclusion_prolog[1] \o " :- " \o condition_prolog[1])
    ELSE None

\* s.split(sep, 1), sep as written: the text before and after the first sep,
\* or the text alone
split_once(s, sep) ==
    LET C == { k \in 1..Len(s) : LitAt(s, k, sep) }
    IN  IF C = {} THEN << s >>
        ELSE << SubSeq(s, 1, Min(C) - 1), From(s, Min(C) + Len(sep)) >>

\* the clause of the two parts of a split rule, None when the separator is
\* not written in lower case
legacy_rule_of(parts, conclusion_at, condition_from) ==
    IF Len(parts) # 2 THEN None
    ELSE legacy_rule_clause(
             _convert_ace_expression_to_prolog(strip(parts[conclusion_at])),
             _convert_ace_expression_to_prolog(
                 strip(From(parts[3 - conclusion_at], condition_from))))

legacy_ace_to_prolog_rule(ace_rule) ==
    LET r == rstrip(strip(ace_rule), ".")
    IN  IF contains(lower(r), " if ")
        THEN legacy_rule_of(split_once(r, " if "), 1, 1)
        ELSE IF startswith(lower(r), "if ") /\ contains(lower(r), " then ")
        THEN legacy_rule_of(split_once(r, " then "), 2, 4)
        ELSE None

-----------------------------------------------------------------------------
(* The texts the callers pass.                                             *)

MaxNormLen == 4
MaxLines == 3
MaxCalls == 2

\* every string of at most n characters of the alphabet
RECURSIVE StringsUpTo(_, _)
StringsUpTo(alphabet, n) ==
    IF n = 0 THEN {""}
    ELSE LET shorter == StringsUpTo(alphabet, n - 1)
         IN  shorter \cup { s \o c : s \in shorter, c \in alphabet }

NormAlphabet == {"a", "B", " ", "-", "_", "\t"}

Names == {"John", "Mary-Jane", "New  York", " ice - cream ", "HANS_2", "The big dog"}

NormTexts == StringsUpTo(NormAlphabet, MaxNormLen) \cup Names

\* the tokens of the sentences
Subjects == {"X", "y", "Someone", "someone", "JOHN"}
Properties == {"happy", "Tall", "p_1"}
PlainProperties == {"tall", "Young", "q2"}
Objects == {"chocolate", "Tea", "o_2"}
Entities == {"John", "mary", "HANS_2"}
Benefits == {"Kindergeld", "housing"}
Classes == {"citizens", "People"}
Kinds == {"income", "Wohngeld"}

RuleIfLikes(S, P, O) == S \o " is " \o P \o " if " \o S \o " likes " \o O \o "."
RuleIfIs(S, P, Q) == S \o " is " \o P \o " if " \o S \o " is " \o Q \o "."
RuleThenLikes(S, P, O) == "If " \o S \o " likes " \o O \o " then " \o S \o " is " \o P \o "."
RuleThenIs(S, P, Q) == "If " \o S \o " is " \o Q \o " then " \o S \o " is " \o P \o "."

QIs(E, P) == "Is " \o E \o " " \o P
QWho(P) == "Who is " \o P
QWhatLike(E) == "What does " \o E \o " like"
QIsEligible(E, B) == "Is " \o E \o " eligible for " \o B
QWhatBenefits(E) == "What benefits does " \o E \o " qualify for"
QWhichEligible(C, B) == "Which " \o C \o " are eligible for " \o B
QHowMuchEarn(K, E) == "How much " \o K \o " does " \o E \o " earn"
QHowMuchReceive(K, E) == "How much " \o K \o " does " \o E \o " receive"

LetterCases == {"asis", "lower", "upper"}

Recase(c, s) == IF c = "lower" THEN lower(s) ELSE IF c = "upper" THEN upper(s) ELSE s

TableQueries ==
    { QIs(E, P) : E \in Entities, P \in Properties }
    \cup { QWho(P) : P \in Properties }
    \cup { QWhatLike(E) : E \in Entities }
    \cup { QIsEligible(E, B) : E \in Entities, B \in Benefits }
    \cup { QWhatBenefits(E) : E \in Entities }
    \cup { QWhichEligible(C, B) : C \in Classes, B \in Benefits }
    \cup { QHowMuchEarn(K, E) : K \in Kinds, E \in Entities }
    \cup { QHowMuchReceive(K, E) : K \in Kinds, E \in Entities }

OtherQueries ==
    { "Where is John?", "When did Mary arrive?", "Why is Bob happy?",
      "How does Alice work?", "Can John swim?", "Does Mary like chocolate?",
      "Random question without proper structure?", "Is?", "Is John?",
      "Is Mary-Jane happy?", "Who is ?", "Who is ice-cream-lover?",
      "What does Mary Jane like?", "  Is John happy?  ", "?", "",
      "Is John happy? Is Mary sad?", "How much does Hans earn?",
      "Is the dog friendly?", "Who is John's friend?" }

QueryTexts ==
    { Recase(c, q) \o m : c \in LetterCases, q \in TableQueries, m \in {"", "?"} }
    \cup OtherQueries

RuleTexts ==
    { RuleIfLikes(S, P, O) : S \in Subjects, P \in Properties, O \in Objects }
    \cup { RuleIfIs(S, P, Q) : S \in Subjects, P \in Properties, Q \in PlainProperties }
    \cup { RuleThenLikes(S, P, O) : S \in Subjects, P \in Properties, O \in Objects }
    \cup { RuleThenIs(S, P, Q) : S \in Subjects, P \in Properties, Q \in PlainProperties }
    \cup { "X is happy if X likes chocolate", "x is happy IF x likes chocolate.",
           "IF X is student THEN X is young.", "If X is a student then X is young",
           "X is happy if.", "X is if Y likes chocolate.", "if X likes chocolate.",
           "X is happy if Y.", "The person is happy if The person likes tea.",
           "X is happy if X likes ice cream!", "X is happy if X is employed.",
           "X is sad if X is tall and X likes tea.",
           "X is sad if X is tall or X likes tea.",
           "X is eligible for Kindergeld if X has more than 0 children.",
           "Someone is eligible for Kindergeld if Someone lives in Germany.",
           "Hans qualifies for Kindergeld when Hans is married.",
           "If X is tall if X is big then X is sad." }

FactTexts ==
    { "John is a person.", "Mary is happy.", "Bob likes chocolate.",
      "Bob has age 25.", "Mary-Jane is a person.", "The big dog is happy",
      "Hans earns 2500.50 euros per month.", "Hans was born on 1985-06-15.",
      "Hans lives in Germany.", "Hans has 2 children.", "Hans is married.",
      "Hans is self-employed.", "Hans has German citizenship.",
      "John and Mary are friends.", "John likes ice cream!", "John's dog is happy.",
      "Bob is 5.", "john runs.", "John runs", "This is a complex sentence",
      "123 numbers and text", "Mr. John is a person.", "John is happy. Mary is sad.",
      "John likes  .", "", "   ", "\t", ".", "Random text without clear structure" }

\* the sentences of the fact templates
FactEntities == {"John", "Mary-Jane", "The big dog"}
EmploymentWords == {"employed", "unemployed", "self-employed", "retired"}
MaritalWords == {"married", "single", "divorced", "widowed"}
PropertyWords == {"person", "Tall", "singleton", "retired_person"}
FactWords == EmploymentWords \cup MaritalWords \cup PropertyWords

IsASentence(E, W) == E \o " is a " \o W \o "."
IsSentence(E, W) == E \o " is " \o W \o "."

CountWords == {"2"}
CitizenshipWords == {"German", "EU", "non-EU"}
HasProperties == {"age", "color"} \cup CountWords \cup CitizenshipWords
HasValues == {"25", "Blue", "child", "children", "citizenship", "childcare"}

HasSentence(E, Q, V) == E \o " has " \o Q \o " " \o V \o "."

\* sentences written as the items of a list
ListItems == {"- John is a person.", "- Mary likes -tea."}

FactSentences ==
    { IsASentence(E, W) : E \in FactEntities, W \in FactWords }
    \cup { IsSentence(E, W) : E \in FactEntities, W \in FactWords }
    \cup { HasSentence(E, Q, V) : E \in FactEntities, Q \in HasProperties, V \in HasValues }
    \cup ListItems

\* one sentence of each template, and the same sentence written with more
\* blanks: around it, in one place between two words, or in every place
SpacingBases == {"John is a person.", "Mary is happy.", "Hans is married.",
                 "Bob likes chocolate.", "Alice has age 25."}

BlankPlaces(t) == { k \in 1..Len(t) : At(t, k) = " " }

WidenAt(t, k) == SubSeq(t, 1, k) \o " " \o From(t, k + 1)

SpacedSentences ==
    UNION { { WidenAt(b, k) : k \in BlankPlaces(b) } : b \in SpacingBases }
    \cup { replace(b, " ", w) : b \in SpacingBases, w \in {"  ", "   "} }
    \cup { p \o b \o p : b \in SpacingBases, p \in {" ", "  ", "\t", " \t"} }

\* rules whose condition is about another subject than the conclusion
RuleSentences ==
    { "X is happy if John likes music.", "X is happy if Y likes chocolate.",
      "X is young if Mary is teacher." }

\* rules that lack a part: the condition, the conclusion, the property of
\* the conclusion, or all but one word of the condition
RuleConclusions == {"X is happy", "Y is Tall", "X is eligible for Kindergeld",
                    "The person is happy"}
RuleConditions == {"Y likes chocolate", "X is tall", "X has more than 0 children"}
BareTokens == {"Y", "employed", "married", "25", "Kindergeld"}

MalformedRules ==
    { c \o e : c \in RuleConclusions, e \in {" if.", " if", " IF ."} }
    \cup { c \o " if " \o b \o d : c \in RuleConclusions, b \in BareTokens, d \in {"", "."} }
    \cup { i \o c \o "." : i \in {"if ", "If "}, c \in RuleConditions }
    \cup { s \o " is if " \o c \o "." : s \in Subjects, c \in RuleConditions }
    \cup { "Not a rule at all.", "If X and Y then Z.", "X is happy, if ok",
            "X is happy when X likes tea.", "X is happy\tif\tX likes tea." }

\* rules whose condition joins two or three atomic conditions, some of
\* which do not translate
AtomicConditions == {"X is tall", "X likes tea", "X has more than 0 children",
                     "X", "X works hard"}
Connectives == {" and ", " or "}

CompoundRules ==
    { "X is sad if " \o a \o j \o b \o "." :
          a \in AtomicConditions, b \in AtomicConditions, j \in Connectives }
    \cup { "X is sad if X is tall" \o j \o "X likes tea" \o k \o b \o "." :
              j \in Connectives, k \in Connectives, b \in AtomicConditions }

\* rules over one condition of each atomic template, about the variable of
\* the rule in either case or about a named entity
ConditionSubjects == {"X", "x", "John"}
ConditionRests == {" has more than 0 children", " has German citizenship",
                   " lives in Berlin", " is employed", " is married",
                   " likes tea", " is tall"}

SubjectRule(S, R) == "X is happy if " \o S \o R \o "."

SubjectRules == { SubjectRule(S, R) : S \in ConditionSubjects, R \in ConditionRests }

\* eligibility rules about each subject, with a condition about the same
\* subject
EligibleRule(S) == S \o " is eligible for Kindergeld if " \o S \o " is tall."

EligibleRules == { EligibleRule(S) : S \in Subjects \cup {"Z"} }

\* the questions that share their lead word with a more general question,
\* about entities and benefits of one or two words
AskedEntities == {"John", "the dog", "Mary-Jane"}
AskedBenefits == {"Kindergeld", "child benefit"}

SpecificQueries ==
    { QIsEligible(E, B) \o m : E \in AskedEntities, B \in AskedBenefits, m \in {"", "?"} }
    \cup { QWhatBenefits(E) \o m : E \in AskedEntities, m \in {"", "?"} }

\* the yes/no questions about the facts of the templates 'is' and 'is a'
AskedWords == {"happy", "person"} \cup EmploymentWords \cup MaritalWords

YesNoQuery(E, W) == "Is " \o E \o " " \o W \o "?"
YesNoQueryA(E, W) == "Is " \o E \o " a " \o W \o "?"

YesNoQueries ==
    { YesNoQuery(E, W) : E \in Entities, W \in AskedWords }
    \cup { YesNoQueryA(E, W) : E \in Entities, W \in AskedWords }

\* the sentences the tests of the replaced parser translate
LegacyFacts ==
    { "JOHN IS A PERSON.", "mary IS happy.", "Bob LIKES chocolate.",
      "John has eye-color blue.", "Alice has birth-year 1990.", "John is a person",
      "This is not a valid fact", "John", "is happy", "John is", "123 is a person." }

LegacyRules ==
    { "X is tall if X is basketball-player.", "John is satisfied if John likes coffee.",
      "If X likes chocolate then X is happy.", "If X is student then X is young.",
      "x is happy if x likes chocolate.", "IF X likes chocolate THEN X is happy.",
      "John is happy", "X likes chocolate" }

\* the lines a caller classifies: every sentence, also without its
\* terminator and inside blanks
Lines ==
    LET base == FactTexts \cup RuleTexts \cup QueryTexts
    IN  base \cup { rstrip(rstrip(t, "."), "?") : t \in base }
             \cup { "  " \o t \o " " : t \in FactTexts \cup OtherQueries }

\* the lines of a text
TextLines == { "John is a person.", "  # a comment", "# Is John happy?", "",
               " \t", "Is John happy?", "X is happy if X likes tea" }

RECURSIVE TextsUpTo(_)
TextsUpTo(n) ==
    IF n = 0 THEN {""}
    ELSE LET shorter == TextsUpTo(n - 1)
         IN  shorter \cup TextLines \cup { t \o "\n" \o l : t \in shorter, l \in TextLines }

Texts == TextsUpTo(MaxLines)

-----------------------------------------------------------------------------
(* The parser instance and the calls on it.                                *)

\* the pattern tables of the instance, as the methods read them
Self == [fact_patterns |-> fact_patterns, rule_patterns |-> rule_patterns,
         query_patterns |-> query_patterns]

Fields == <<entity_map, next_entity_id, fact_patterns, rule_patterns, query_patterns>>

\* ACEToPrologParser()
Init ==
    /\ entity_map = << >>
    /\ next_entity_id = 1
    /\ fact_patterns = InitFactPatterns
    /\ rule_patterns = InitRulePatterns
    /\ query_patterns = InitQueryPatterns
    /\ op = "none"
    /\ text = ""
    /\ result = None
    /\ calls = 0

\* A normalize_entity that registers the entity under the next free id, as
\* the unused fields entity_map and next_entity_id would suggest.
CallNormalizeEntity_registering ==
    /\ op = "none"
    /\ calls < MaxCalls
    /\ \E s \in NormTexts :
          /\ op' = "normalize_entity"
          /\ text' = s
          /\ result' = normalize_entity(s)
          /\ entity_map' = [k \in DOMAIN entity_map \cup {s} |->
                               IF k = s THEN next_entity_id ELSE entity_map[k]]
    /\ next_entity_id' = next_entity_id + 1
    /\ UNCHANGED <<fact_patterns, rule_patterns, query_patterns, calls>>

CallNormalizeEntity ==
    /\ op = "none"
    /\ calls < MaxCalls
    /\ \E s \in NormTexts :
          /\ op' = "normalize_entity"
          /\ text' = s
          /\ result' = normalize_entity(s)
    /\ UNCHANGED <<Fields, calls>>

CallFact ==
    /\ op = "none"
    /\ calls < MaxCalls
    /\ \E s \in Lines \cup FactSentences \cup SpacedSentences :
          /\ op' = "ace_to_prolog_fact"
          /\ text' = s
          /\ result' = ace_to_prolog_fact(s)
    /\ UNCHANGED <<Fields, calls>>

CallRule ==
    /\ op = "none"
    /\ calls < MaxCalls
    /\ \E s \in Lines \cup RuleSentences \cup MalformedRules \cup CompoundRules
                 \cup SubjectRules \cup EligibleRules :
          /\ op' = "ace_to_prolog_rule"
          /\ text' = s
          /\ result' = ace_to_prolog_rule(s)
    /\ UNCHANGED <<Fields, calls>>

CallQueryType ==
    /\ op = "none"
    /\ calls < MaxCalls
    /\ \E s \in Lines \cup SpecificQueries :
          /\ op' = "parse_query_type"
          /\ text' = s
          /\ result' = parse_query_type(s)
    /\ UNCHANGED <<Fields, calls>>

CallQuery ==
    /\ op = "none"
    /\ calls < MaxCalls
    /\ \E s \in Lines \cup SpecificQueries \cup YesNoQueries :
          /\ op' = "ace_to_prolog_query"
          /\ text' = s
          /\ result' = ace_to_prolog_query(s)
    /\ UNCHANGED <<Fields, calls>>

CallParseStatement ==
    /\ op = "none"
    /\ calls < MaxCalls
    /\ \E s \in Lines :
          /\ op' = "parse_statement"
          /\ text' = s
          /\ result' = parse_statement(Self, s)
    /\ UNCHANGED <<Fields, calls>>

CallParseText ==
    /\ op = "none"
    /\ calls < MaxCalls
    /\ \E s \in Texts :
          /\ op' = "parse_text"
          /\ text' = s
          /\ result' = parse_text(Self, s)
    /\ UNCHANGED <<Fields, calls>>

\* the same calls on an instance of the replaced parser, which has no
\* field that a call changes
CallLegacyFact ==
    /\ op = "none"
    /\ calls < MaxCalls
    /\ \E s \in FactTexts \cup LegacyFacts :
          /\ op' = "legacy.ace_to_prolog_fact"
          /\ text' = s
          /\ result' = legacy_ace_to_prolog_fact(s)
    /\ UNCHANGED <<Fields, calls>>

CallLegacyRule ==
    /\ op = "none"
    /\ calls < MaxCalls
    /\ \E s \in RuleTexts \cup LegacyRules :
          /\ op' = "legacy.ace_to_prolog_rule"
          /\ text' = s
          /\ result' = legacy_ace_to_prolog_rule(s)
    /\ UNCHANGED <<Fields, calls>>

\* the call returns; the instance is ready for the next call
Return ==
    /\ op # "none"
    /\ op' = "none"
    /\ text' = ""
    /\ result' = None
    /\ calls' = calls + 1
    /\ UNCHANGED Fields

Next ==
    \/ CallNormalizeEntity
    \/ CallFact
    \/ CallRule
    \/ CallQueryType
    \/ CallQuery
    \/ CallParseStatement
    \/ CallParseText
    \/ CallLegacyFact
    \/ CallLegacyRule
    \/ Return

Spec == Init /\ [][Next]_vars

-----------------------------------------------------------------------------
(* The claims.                                                             *)

\* C1: for every subject S and tokens P, Q, O (Q no status word),
\* ace_to_prolog_rule turns 'S is P if S likes O.' into 'p(V) :- likes(V, o)'
\* and 'S is P if S is Q.' into 'p(V) :- q(V)', V being the whole of S in
\* upper case, the same token in the head and in the body.
C1_VariableVerbatim ==
    op = "ace_to_prolog_rule" =>
        /\ \A S \in Subjects, P \in Properties, O \in Objects :
              text = RuleIfLikes(S, P, O) =>
                  result = Some(lower(P) \o "(" \o upper(S) \o ") :- likes("
                                \o upper(S) \o ", " \o lower(O) \o ")")
        /\ \A S \in Subjects, P \in Properties, Q \in PlainProperties :
              text = RuleIfIs(S, P, Q) =>
                  result = Some(lower(P) \o "(" \o upper(S) \o ") :- "
                                \o lower(Q) \o "(" \o upper(S) \o ")")

C1_Witness ==
    /\ op = "ace_to_prolog_rule"
    /\ text = "Someone is happy if Someone likes chocolate."
    /\ result = Some("happy(SOMEONE) :- likes(SOMEONE, chocolate)")

\* The target grammar: an Atom, a variable, a number, a date literal, a
\* predicate application, a comparison, a clause.
IsAtom(a) ==
    /\ a # ""
    /\ Head(a) \in LowerCh
    /\ \A i \in 1..Len(a) : At(a, i) \in LowerCh \cup DigitCh \cup {"_"}

IsVariableToken(a) ==
    /\ a # ""
    /\ Head(a) \in UpperCh \cup {"_"}
    /\ \A i \in 1..Len(a) : At(a, i) \in WordCh

IsNumberToken(a) ==
    /\ a # ""
    /\ \A i \in 1..Len(a) : At(a, i) \in DigitCh \cup {"."}
    /\ Cardinality({ i \in 1..Len(a) : At(a, i) = "." }) <= 1
    /\ Head(a) \in DigitCh
    /\ At(a, Len(a)) \in DigitCh

IsDateLiteral(a) ==
    /\ startswith(a, "date(")
    /\ endswith(a, ")")
    /\ Len(a) > 6
    /\ \A i \in 6..(Len(a) - 1) : At(a, i) \in DigitCh \cup {",", " "}

\* the number of parentheses open before position k
DepthAt(s, k) ==
    Cardinality({ i \in 1..(k - 1) : At(s, i) = "(" })
    - Cardinality({ i \in 1..(k - 1) : At(s, i) = ")" })

\* s cut at every separator that stands outside parentheses
RECURSIVE SplitTop(_, _)
SplitTop(s, seps) ==
    LET C == { k \in 1..Len(s) : /\ \E sep \in seps : LitAt(s, k, sep)
                                 /\ DepthAt(s, k) = 0 }
    IN  IF C = {} THEN << s >>
        ELSE << SubSeq(s, 1, Min(C) - 1) >> \o SplitTop(From(s, Min(C) + 2), seps)

ValidArgument(a) ==
    IsAtom(a) \/ IsVariableToken(a) \/ IsNumberToken(a) \/ IsDateLiteral(a)

\* functor(arg1, ..., argN)
ValidApplication(g) ==
    LET open == { i \in 1..Len(g) : At(g, i) = "(" }
    IN  /\ open # {}
        /\ endswith(g, ")")
        /\ IsAtom(SubSeq(g, 1, Min(open) - 1))
        /\ LET args == SplitTop(SubSeq(g, Min(open) + 1, Len(g) - 1), {", "})
           IN  \A k \in 1..Len(args) : ValidArgument(args[k])

\* Variable <comparison> number
ValidComparison(g) ==
    \E sign \in {">", "<", ">=", "=:="} : \E i \in 1..Len(g) :
        /\ LitAt(g, i, " " \o sign \o " ")
        /\ IsVariableToken(SubSeq(g, 1, i - 1))
        /\ IsNumberToken(From(g, i + Len(sign) + 2))

\* head :- goal {(, | ;) goal}
ValidClause(c) ==
    LET neck == { i \in 1..Len(c) : LitAt(c, i, " :- ") }
    IN  /\ neck # {}
        /\ ValidApplication(SubSeq(c, 1, Min(neck) - 1))
        /\ LET goals == SplitTop(From(c, Min(neck) + 4), {", ", "; "})
           IN  \A k \in 1..Len(goals) :
                   ValidApplication(goals[k]) \/ ValidComparison(goals[k])

\* C2: every string that ace_to_prolog_fact, ace_to_prolog_rule or
\* ace_to_prolog_query returns is valid target text: functor(arg1, ..., argN)
\* or 'head :- body', every functor and constant an Atom, every variable one
\* upper-case identifier, every other argument a number or a date.
C2_ValidTargetText ==
    /\ (op \in {"ace_to_prolog_fact", "ace_to_prolog_query"} /\ result # None)
          => ValidApplication(result[1])
    /\ (op = "ace_to_prolog_rule" /\ result # None) => ValidClause(result[1])

\* What a newly constructed instance returns for the call o on the input t.
FreshSelf ==
    [fact_patterns |-> InitFactPatterns, rule_patterns |-> InitRulePatterns,
     query_patterns |-> InitQueryPatterns]

FreshReturn(o, t) ==
    CASE o = "normalize_entity" -> normalize_entity(t)
      [] o = "ace_to_prolog_fact" -> ace_to_prolog_fact(t)
      [] o = "ace_to_prolog_rule" -> ace_to_prolog_rule(t)
      [] o = "parse_query_type" -> parse_query_type(t)
      [] o = "ace_to_prolog_query" -> ace_to_prolog_query(t)
      [] o = "parse_statement" -> parse_statement(FreshSelf, t)
      [] o = "parse_text" -> parse_text(FreshSelf, t)
      [] o = "legacy.ace_to_prolog_fact" -> legacy_ace_to_prolog_fact(t)
      [] o = "legacy.ace_to_prolog_rule" -> legacy_ace_to_prolog_rule(t)

\* C3: after any sequence of calls on one instance, entity_map,
\* next_entity_id and the three pattern tables still hold the values the
\* constructor gave them, and every call returns what a newly constructed
\* instance returns for the same input.
C3_CallsArePure ==
    /\ entity_map = <<>>
    /\ next_entity_id = 1
    /\ fact_patterns = InitFactPatterns
    /\ rule_patterns = InitRulePatterns
    /\ query_patterns = InitQueryPatterns
    /\ op # "none" => result = FreshReturn(op, text)

C3_Witness ==
    /\ calls = MaxCalls - 1
    /\ op = "parse_statement"
    /\ text = "X is happy if X likes chocolate."
    /\ result = ACEStatement("X is happy if X likes chocolate.", "rule")
    /\ next_entity_id = 1

\* C4: normalize_entity is idempotent: normalizing a value that
\* normalize_entity returned gives that value again.
C4_NormalizeIdempotent ==
    op = "normalize_entity" => normalize_entity(result) = result

C4_Witness ==
    /\ op = "normalize_entity"
    /\ text = "B -a"
    /\ result = "b_a"
    /\ normalize_entity(result) = "b_a"

\* some pattern of one of the three tables matches the trimmed text t
AnyPatternMatches(self, t) ==
    \/ \E i \in 1..Len(self.query_patterns) : MatchQuery(self.query_patterns[i], t)
    \/ \E i \in 1..Len(self.rule_patterns) : MatchRule(self.rule_patterns[i], t)
    \/ \E i \in 1..Len(self.fact_patterns) : MatchFact(self.fact_patterns[i], t)

\* C5 as stated: parse_statement returns one statement of type fact, rule
\* or query; when no query, rule or fact pattern matches, the type is 'fact'
\* and the content is the trimmed text with a '.' appended; in every other
\* case the content is the trimmed text.
C5_FallbackAlwaysAppends ==
    op = "parse_statement" =>
        LET t == strip(text)
        IN  /\ result.statement_type \in {"fact", "rule", "query"}
            /\ ~AnyPatternMatches(Self, t) =>
                   result = ACEStatement(t \o ".", "fact")
            /\ AnyPatternMatches(Self, t) => result.content = t

\* C5: parse_statement returns one statement of type fact, rule or query;
\* when no query, rule or fact pattern matches, the type is 'fact', and the
\* content is the trimmed text with a '.' appended if the trimmed text does
\* not end with '.' already; in every other case the content is the trimmed
\* text.
C5_FallbackAppendsIfAbsent ==
    op = "parse_statement" =>
        LET t == strip(text)
        IN  /\ result.statement_type \in {"fact", "rule", "query"}
            /\ ~AnyPatternMatches(Self, t) => result.statement_type = "fact"
            /\ (~AnyPatternMatches(Self, t) /\ ~endswith(t, ".")) =>
                   result.content = t \o "."
            /\ (AnyPatternMatches(Self, t) \/ endswith(t, ".")) =>
                   result.content = t

C5_Witness ==
    /\ op = "parse_statement"
    /\ text = "   "
    /\ ~AnyPatternMatches(Self, strip(text))
    /\ result = ACEStatement(".", "fact")

QueryLeadWords ==
    {"Is", "Are", "Does", "Do", "Who", "What", "When", "Where", "Why", "How"}

\* the trimmed line t starts, in any letter case, with one of the words
StartsWithLeadWord(t) ==
    \E w \in QueryLeadWords : startswith(lower(t), lower(w) \o " ")

\* C6: parse_statement labels a line 'query' whenever the trimmed line ends
\* with '?' or starts, in any letter case, with one of the words Is, Are,
\* Does, Do, Who, What, When, Where, Why, How.
C6_QueryByMarkOrLeadWord ==
    op = "parse_statement" =>
        LET t == strip(text)
        IN  (endswith(t, "?") \/ StartsWithLeadWord(t)) =>
                result.statement_type = "query"

\* C7: a line that parse_statement does not label 'query' is labelled 'rule'
\* whenever it contains ' if ' in any letter case, or starts with 'If ' and
\* contains ' then '.
C7_RuleByIfOrIfThen ==
    op = "parse_statement" =>
        LET t == strip(text)
        IN  (/\ result.statement_type # "query"
             /\ \/ contains(lower(t), " if ")
                \/ startswith(t, "If ") /\ contains(t, " then "))
                => result.statement_type = "rule"

\* C8: when 'C if D.' translates, 'If D then C.' translates to the same
\* clause.
C8_IfThenSameClause ==
    op = "ace_to_prolog_rule" =>
        /\ \A S \in Subjects, P \in Properties, O \in Objects :
              (/\ text = RuleThenLikes(S, P, O)
               /\ ace_to_prolog_rule(RuleIfLikes(S, P, O)) # None)
                  => result = ace_to_prolog_rule(RuleIfLikes(S, P, O))
        /\ \A S \in Subjects, P \in Properties, Q \in PlainProperties :
              (/\ text = RuleThenIs(S, P, Q)
               /\ ace_to_prolog_rule(RuleIfIs(S, P, Q)) # None)
                  => result = ace_to_prolog_rule(RuleIfIs(S, P, Q))

\* The dispatch table: the question (without its '?'), its type and its goal.
DispatchTable ==
    { [q |-> QIs(E, P), type |-> "IS_X_Y",
       goal |-> lower(P) \o "(" \o lower(E) \o ")"] : E \in Entities, P \in Properties }
    \cup { [q |-> QWho(P), type |-> "WHO_IS_X",
            goal |-> lower(P) \o "(X)"] : P \in Properties }
    \cup { [q |-> QWhatLike(E), type |-> "WHAT_DOES_X_LIKE",
            goal |-> "likes(" \o lower(E) \o ", X)"] : E \in Entities }
    \cup { [q |-> QIsEligible(E, B), type |-> "IS_ELIGIBLE_FOR",
            goal |-> "eligible(" \o lower(E) \o ", " \o lower(B) \o ")"] :
              E \in Entities, B \in Benefits }
    \cup { [q |-> QWhatBenefits(E), type |-> "WHAT_BENEFITS",
            goal |-> "eligible(" \o lower(E) \o ", X)"] : E \in Entities }
    \cup { [q |-> QWhichEligible(C, B), type |-> "WHICH_ELIGIBLE",
            goal |-> "eligible(X, " \o lower(B) \o ")"] : C \in Classes, B \in Benefits }
    \cup { [q |-> QHowMuchEarn(K, E), type |-> "HOW_MUCH",
            goal |-> "income(" \o lower(E) \o ", X, _)"] : K \in Kinds, E \in Entities }
    \cup { [q |-> QHowMuchReceive(K, E), type |-> "HOW_MUCH",
            goal |-> "benefit_amount(" \o lower(E) \o ", " \o lower(K) \o ", X)"] :
              K \in Kinds, E \in Entities }

UnsupportedQueries ==
    { "Where is John?", "When did Mary arrive?", "Why is Bob happy?",
      "How does Alice work?", "Can John swim?", "Does Mary like chocolate?",
      "Random question without proper structure?", "Is?" }

\* C10: ace_to_prolog_query returns None exactly when parse_query_type, on
\* the trimmed text without its '?', returns None; both return None for the
\* interrogatives outside the dispatch table and for the fragment 'Is?'.
C10_TypeAndGoalTogether ==
    op = "ace_to_prolog_query" =>
        LET type == parse_query_type(rstrip(strip(text), "?"))
        IN  /\ (result = None) <=> (type = None)
            /\ text \in UnsupportedQueries => (result = None /\ type = None)

\* the atom of a name whose words are separated by single blanks or hyphens:
\* lower case, every blank and hyphen an underscore
AtomOf(name) == replace(replace(lower(name), " ", "_"), "-", "_")

\* C11: 'E is a W.' translates to w(e); 'E is W.' translates to
\* employment_status(e, w) exactly when W is an employment word, to
\* marital_status(e, w) exactly when W is a marital word, and to w(e), with
\* W normalized in full, for every other word W.
C11_IsTemplates ==
    op = "ace_to_prolog_fact" =>
        \A E \in FactEntities, W \in FactWords :
            /\ text = IsASentence(E, W) =>
                   result = Some(AtomOf(W) \o "(" \o AtomOf(E) \o ")")
            /\ text = IsSentence(E, W) =>
                   result = Some(IF W \in EmploymentWords
                                 THEN "employment_status(" \o AtomOf(E) \o ", " \o AtomOf(W) \o ")"
                                 ELSE IF W \in MaritalWords
                                 THEN "marital_status(" \o AtomOf(E) \o ", " \o AtomOf(W) \o ")"
                                 ELSE AtomOf(W) \o "(" \o AtomOf(E) \o ")")

\* C12: 'E has N child.' and 'E has N children.' translate to
\* children_count(e, N), 'E has K citizenship.' with K one of German, EU,
\* non-EU translates to citizenship(e, k), and every other three-token
\* 'E has P V.' translates to has_property(e, p, v).
C12_HasTemplates ==
    op = "ace_to_prolog_fact" =>
        \A E \in FactEntities, Q \in HasProperties, V \in HasValues :
            text = HasSentence(E, Q, V) =>
                result = Some(IF Q \in CountWords /\ V \in {"child", "children"}
                              THEN "children_count(" \o AtomOf(E) \o ", " \o Q \o ")"
                              ELSE IF Q \in CitizenshipWords /\ V = "citizenship"
                              THEN "citizenship(" \o AtomOf(E) \o ", " \o AtomOf(Q) \o ")"
                              ELSE "has_property(" \o AtomOf(E) \o ", " \o AtomOf(Q)
                                       \o ", " \o AtomOf(V) \o ")")

\* the arguments of the application functor(arg1, ..., argN)
Arguments(g) ==
    LET open == { i \in 1..Len(g) : At(g, i) = "(" }
    IN  IF open = {} \/ ~endswith(g, ")") THEN << >>
        ELSE SplitTop(SubSeq(g, Min(open) + 1, Len(g) - 1), {", "})

\* an argument that reads as a logic variable
LooksVariable(a) == a # "" /\ Head(a) \in UpperCh \cup {"_"}

\* C13: no argument of a fact that ace_to_prolog_fact returns begins with an
\* upper-case letter or an underscore; a goal of type IS_X_Y or
\* IS_ELIGIBLE_FOR has no such argument, and a goal of any other type has
\* the argument X exactly once and no other such argument, except the '_'
\* of the income goal.
C13_NoStrayVariable ==
    /\ (op = "ace_to_prolog_fact" /\ result # None) =>
           \A k \in 1..Len(Arguments(result[1])) : ~LooksVariable(Arguments(result[1])[k])
    /\ (op = "ace_to_prolog_query" /\ result # None) =>
           LET args == Arguments(result[1])
               type == parse_query_type(rstrip(strip(text), "?"))
           IN  IF type \in {Some("IS_X_Y"), Some("IS_ELIGIBLE_FOR")}
               THEN \A k \in 1..Len(args) : ~LooksVariable(args[k])
               ELSE /\ Cardinality({ k \in 1..Len(args) : args[k] = "X" }) = 1
                    /\ \A k \in 1..Len(args) :
                          LooksVariable(args[k]) =>
                              \/ args[k] = "X"
                              \/ args[k] = "_" /\ startswith(result[1], "income(")

\* the head and the goals of the clause 'head :- goal, goal; goal'
ClauseHead(c) ==
    SubSeq(c, 1, Min({ i \in 1..Len(c) : LitAt(c, i, " :- ") }) - 1)

ClauseGoals(c) ==
    SplitTop(From(c, Min({ i \in 1..Len(c) : LitAt(c, i, " :- ") }) + 4), {", ", "; "})

\* C14: in every clause that ace_to_prolog_rule returns, the variable of the
\* head is an argument of some goal of the body.
C14_HeadVariableInBody ==
    (op = "ace_to_prolog_rule" /\ result # None) =>
        LET head_var == Arguments(ClauseHead(result[1]))[1]
            goals == ClauseGoals(result[1])
        IN  \E g \in 1..Len(goals) : \E k \in 1..Len(Arguments(goals[g])) :
                Arguments(goals[g])[k] = head_var

\* the trimmed lines of a text that are neither blank nor comments, in order
RemainingLines(txt) ==
    LET ls == split_lines(txt)
        trimmed == [i \in 1..Len(ls) |-> strip(ls[i])]
        Keep(l) == l # "" /\ Head(l) # "#"
    IN  SelectSeq(trimmed, Keep)

\* C15: parse_text returns one statement for each line that, trimmed, is
\* neither empty nor begins with '#', in the order of the lines; the i-th
\* statement's content is the i-th such line, or that line with a '.'
\* appended when the statement is a fact and the line has no final '.'.
C15_OneStatementPerLine ==
    op = "parse_text" =>
        LET kept == RemainingLines(text)
        IN  /\ Len(result) = Len(kept)
            /\ \A i \in 1..Len(kept) :
                  \/ result[i].content = kept[i]
                  \/ /\ result[i].content = kept[i] \o "."
                     /\ result[i].statement_type = "fact"
                     /\ ~endswith(kept[i], ".")

C15_Witness ==
    /\ op = "parse_text"
    /\ text = "John is a person.\n  # a comment\nIs John happy?"
    /\ result = << ACEStatement("John is a person.", "fact"),
                   ACEStatement("Is John happy?", "query") >>

\* the fields in which an entry of a batch report would carry the outcome
\* of translating its line: the clause, or the reason of the failure
OutcomeFields == {"prolog", "failure_reason"}

\* C16: what parse_text returns for a batch pairs each line that is kept
\* with the outcome of its translation: every entry holds the line and
\* either its translation result or the reason of its failure.
C16_AggregatePairsLineWithOutcome ==
    op = "parse_text" =>
        \A i \in 1..Len(result) :
            /\ "content" \in DOMAIN result[i]
            /\ OutcomeFields \cap DOMAIN result[i] # {}

\* the words of a text, in order
RECURSIVE Words(_)
Words(s) ==
    LET t == strip(s)
        sp == { k \in 1..Len(t) : At(t, k) \in SpaceCh }
    IN  IF t = "" THEN << >>
        ELSE IF sp = {} THEN << t >>
        ELSE << SubSeq(t, 1, Min(sp) - 1) >> \o Words(From(t, Min(sp) + 1))

\* the words of a rule, lowered, without the final periods
RuleWords(t) == Words(lower(rstrip(strip(t), ".")))

\* the places of the word 'if' among the words
IfPlaces(w) == { k \in 1..Len(w) : w[k] = "if" }

\* no word 'if' written between blanks after a conclusion
NoSeparator(t) == ~contains(lower(strip(t)), " if ")

\* the rule ends with its 'if'
NoCondition(t) ==
    LET w == RuleWords(t) IN IfPlaces(w) = {Len(w)} /\ w # << >>

\* the rule begins with its 'if'
NoConclusion(t) ==
    LET w == RuleWords(t) IN IfPlaces(w) = {1}

\* the conclusion is a subject and 'is', with nothing after it
NoConclusionProperty(t) ==
    LET w == RuleWords(t)
    IN  \E k \in 3..Len(w) :
            /\ IfPlaces(w) = {k}
            /\ w[k - 1] = "is"
            /\ \A j \in 1..(k - 2) : w[j] # "is"

\* the condition is one word
BareCondition(t) ==
    LET w == RuleWords(t) IN Len(w) >= 2 /\ IfPlaces(w) = {Len(w) - 1}

MalformedRule(t) ==
    \/ t = ""
    \/ NoSeparator(t)
    \/ NoCondition(t)
    \/ NoConclusion(t)
    \/ NoConclusionProperty(t)
    \/ BareCondition(t)

\* C17: ace_to_prolog_rule returns None for a malformed rule: the empty
\* string, a text without the separator ' if ', a rule without a condition
\* after 'if', without a conclusion before it, with a conclusion that has
\* no property, or with a condition of a single word.
C17_MalformedRuleFails ==
    (op = "ace_to_prolog_rule" /\ MalformedRule(text)) => result = None

C17_Witness ==
    /\ op = "ace_to_prolog_rule"
    /\ text = "X is happy if Y."
    /\ BareCondition(text)
    /\ result = None

\* the verbs of the fact templates, between blanks as the templates write them
TemplateVerbs == {" is ", " likes ", " earns ", " was born on ", " lives in ", " has "}

NoTemplateVerb(t) == \A v \in TemplateVerbs : ~contains(t, v)

\* C18: ace_to_prolog_fact returns None for a text that can match no fact
\* template: the empty string and every text that contains none of the
\* verbs of the templates.
C18_NoTemplateFails ==
    (op = "ace_to_prolog_fact" /\ NoTemplateVerb(text)) => result = None

C18_Witness ==
    /\ op = "ace_to_prolog_fact"
    /\ text = "John and Mary are friends."
    /\ NoTemplateVerb(text)
    /\ result = None

\* the text ends in the period of a statement or the mark of a question
EndsInTerminator(t) == endswith(t, ".") \/ endswith(t, "?")

\* what the call in progress returns for the same text with a terminator
\* after it
WithTerminator(t) ==
    IF op = "ace_to_prolog_fact" THEN ace_to_prolog_fact(t \o ".")
    ELSE IF op = "ace_to_prolog_rule" THEN ace_to_prolog_rule(t \o ".")
    ELSE ace_to_prolog_query(t \o "?")

\* C19: the terminator is optional: for a text that does not end in a
\* terminator, ace_to_prolog_fact and ace_to_prolog_rule return what they
\* return for the text followed by '.', and ace_to_prolog_query what it
\* returns for the text followed by '?'.
C19_TerminatorOptional ==
    (/\ op \in {"ace_to_prolog_fact", "ace_to_prolog_rule", "ace_to_prolog_query"}
     /\ ~EndsInTerminator(text))
    => result = WithTerminator(text)

\* the text is the sentence b but for the blanks around and between its words
SameWords(t, b) == Words(t) = Words(b)

\* C20: blanks do not change what ace_to_prolog_fact returns: for a
\* sentence of the templates 'is a', 'is', 'likes' and 'has' written with
\* spaces or tabs around it, or with several spaces where it has one, the
\* result is the result for the sentence itself.
C20_WhitespaceIndependent ==
    op = "ace_to_prolog_fact" =>
        \A b \in SpacingBases :
            SameWords(text, b) => result = ace_to_prolog_fact(b)

\* C21: the enhanced parser replaces the one before it: when that parser's
\* ace_to_prolog_fact or ace_to_prolog_rule returns a clause for a text,
\* the enhanced method of the same name returns the same clause.
C21_DropInReplacement ==
    /\ (op = "legacy.ace_to_prolog_fact" /\ result # None)
           => ace_to_prolog_fact(text) = result
    /\ (op = "legacy.ace_to_prolog_rule" /\ result # None)
           => ace_to_prolog_rule(text) = result

\* the text of a rule without blanks around it and periods after it
RuleText(t) == rstrip(strip(t), ".")

\* the rule is written '<conclusion> if <condition>' with one ' if '
OneIf(t) ==
    LET parts == split_once(RuleText(t), " if ")
    IN  Len(parts) = 2 /\ ~contains(lower(parts[2]), " if ")

ConclusionOf(t) == split_once(RuleText(t), " if ")[1]

ConditionOf(t) == split_once(RuleText(t), " if ")[2]

\* what the rule with the same conclusion and this condition alone gives
Alone(t, part) == ace_to_prolog_rule(ConclusionOf(t) \o " if " \o part)

\* the body of a clause, as a sequence of at most one string
BodyOf(clause) ==
    IF clause = None THEN None ELSE Some(split_once(clause[1], " :- ")[2])

\* the bodies of the parts of a condition split on a connective, each
\* translated alone
PartBodies(t, word) ==
    LET parts == re_split(ConditionOf(t), word)
    IN  [i \in 1..Len(parts) |-> BodyOf(Alone(t, strip(parts[i])))]

AndRule(t) ==
    /\ OneIf(t)
    /\ contains(lower(ConditionOf(t)), " and ")
    /\ ~contains(lower(ConditionOf(t)), " or ")

\* C22: a rule whose condition contains ' and ' (and no ' or ') translates
\* every part of the condition: when one part does not translate alone the
\* rule fails, and otherwise the body is the bodies of all parts, in order,
\* joined by ', '.
C22_EveryConjunctTranslated ==
    (op = "ace_to_prolog_rule" /\ AndRule(text)) =>
        LET bodies == PartBodies(text, "and")
        IN  IF \E i \in 1..Len(bodies) : bodies[i] = None
            THEN result = None
            ELSE BodyOf(result) = Some(join(", ", [i \in 1..Len(bodies) |-> bodies[i][1]]))

MixedCondition(t) ==
    /\ OneIf(t)
    /\ contains(lower(ConditionOf(t)), " and ")
    /\ contains(lower(ConditionOf(t)), " or ")

\* C23: a rule whose condition contains both ' and ' and ' or ' is not
\* translated: ace_to_prolog_rule returns None.
C23_MixedConditionFails ==
    (op = "ace_to_prolog_rule" /\ MixedCondition(text)) => result = None

\* the separator stands in the body between two goals, outside parentheses
SeparatesGoals(body, sep) ==
    \E k \in 1..Len(body) : LitAt(body, k, sep) /\ DepthAt(body, k) = 0

OrRule(t) ==
    /\ OneIf(t)
    /\ contains(lower(ConditionOf(t)), " or ")
    /\ ~contains(lower(ConditionOf(t)), " and ")

\* C24: the goals of the body of a clause that ace_to_prolog_rule returns
\* are joined in one way: by ';' alone when the condition is split on
\* ' or ', by ',' alone when it is split on ' and ', and never by both.
C24_UniformJoin ==
    (op = "ace_to_prolog_rule" /\ result # None) =>
        LET body == BodyOf(result)[1]
        IN  /\ ~(SeparatesGoals(body, ",") /\ SeparatesGoals(body, ";"))
            /\ OrRule(text) => ~SeparatesGoals(body, ",")
            /\ AndRule(text) => ~SeparatesGoals(body, ";")

\* the clause with the variable X of its body replaced by an atom
GroundBody(clause, atom) ==
    IF clause = None THEN None
    ELSE Some(ClauseHead(clause[1]) \o " :- " \o replace(BodyOf(clause)[1], "X", atom))

\* C25: in a condition of any atomic template, a subject that is the
\* variable of the rule in either letter case is written as the variable,
\* and a named subject gives the same goal with the normalized name in the
\* place of the variable; the condition translates in both cases.
C25_SubjectOfCondition ==
    op = "ace_to_prolog_rule" =>
        \A S \in ConditionSubjects, R \in ConditionRests :
            text = SubjectRule(S, R) =>
                LET about_variable == ace_to_prolog_rule(SubjectRule("X", R))
                IN  /\ result # None
                    /\ upper(S) = "X" => result = about_variable
                    /\ upper(S) # "X" =>
                           result = GroundBody(about_variable, normalize_entity(S))

\* C26: a rule 'S is eligible for B if S ...' has the head eligible(V, b)
\* with V the subject S in upper case, and its condition about S is written
\* with the same V.
C26_EligibleVariable ==
    op = "ace_to_prolog_rule" =>
        \A S \in Subjects \cup {"Z"} :
            text = EligibleRule(S) =>
                result = Some("eligible(" \o upper(S) \o ", kindergeld) :- tall("
                              \o upper(S) \o ")")

\* the marks of the two ways to write a rule
IfThenMarks(t) == startswith(lower(strip(t)), "if ") /\ contains(lower(t), " then ")

IfMark(t) == contains(lower(t), " if ")

\* C27: ace_to_prolog_rule returns None for a text that carries the marks
\* of both ways to write a rule (it begins with 'If ', contains ' then '
\* and contains ' if '), and for a text that carries the marks of neither.
C27_BothOrNeitherFails ==
    (/\ op = "ace_to_prolog_rule"
     /\ \/ IfThenMarks(text) /\ IfMark(text)
        \/ ~IfThenMarks(text) /\ ~IfMark(text))
    => result = None

\* C28: the specific pattern of a lead word is tested before the general
\* one: 'Is E eligible for B' has the type IS_ELIGIBLE_FOR and the goal
\* eligible(e, b), not those of IS_X_Y, and 'What benefits does E qualify
\* for' has the type WHAT_BENEFITS and the goal eligible(e, X), not those of
\* WHAT_DOES_X_LIKE; the goal is the one of the type parse_query_type gives.
C28_SpecificBeforeGeneral ==
    op \in {"parse_query_type", "ace_to_prolog_query"} =>
        \A E \in AskedEntities, m \in {"", "?"} :
            /\ \A B \in AskedBenefits :
                  text = QIsEligible(E, B) \o m =>
                      /\ op = "parse_query_type" => result = Some("IS_ELIGIBLE_FOR")
                      /\ op = "ace_to_prolog_query" =>
                             /\ parse_query_type(rstrip(strip(text), "?"))
                                    = Some("IS_ELIGIBLE_FOR")
                             /\ result = Some("eligible(" \o AtomOf(E) \o ", "
                                              \o AtomOf(B) \o ")")
            /\ text = QWhatBenefits(E) \o m =>
                  /\ op = "parse_query_type" => result = Some("WHAT_BENEFITS")
                  /\ op = "ace_to_prolog_query" =>
                         /\ parse_query_type(rstrip(strip(text), "?")) = Some("WHAT_BENEFITS")
                         /\ result = Some("eligible(" \o AtomOf(E) \o ", X)")

C28_Witness ==
    /\ op = "ace_to_prolog_query"
    /\ text = "Is the dog eligible for child benefit?"
    /\ result = Some("eligible(the_dog, child_benefit)")

\* the goal has a name before its parenthesis and no empty argument
NothingEmpty(g) ==
    /\ ~startswith(g, "(")
    /\ \A k \in 1..Len(Arguments(g)) : strip(Arguments(g)[k]) # ""

\* C29: a name that normalize_entity turns into the empty string makes the
\* translation of its statement fail: no fact, goal or clause that a
\* translator returns has an empty functor or an empty argument.
C29_NoEmptyName ==
    /\ (op \in {"ace_to_prolog_fact", "ace_to_prolog_query"} /\ result # None)
           => NothingEmpty(result[1])
    /\ (op = "ace_to_prolog_rule" /\ result # None)
           => /\ NothingEmpty(ClauseHead(result[1]))
              /\ \A g \in 1..Len(ClauseGoals(result[1])) :
                    NothingEmpty(ClauseGoals(result[1])[g])

\* C30: the goal of a yes/no question is the fact it asks about: the goal
\* of 'Is E W?' is the fact of 'E is W.', and the goal of 'Is E a W?' is the
\* fact of 'E is a W.', for every entity and every word, status words too.
C30_QueryMatchesFact ==
    op = "ace_to_prolog_query" =>
        \A E \in Entities, W \in AskedWords :
            /\ text = YesNoQuery(E, W) => result = ace_to_prolog_fact(IsSentence(E, W))
            /\ text = YesNoQueryA(E, W) => result = ace_to_prolog_fact(IsASentence(E, W))

=============================================================================
